---- MODULE Spec2Model ----
(***************************************************************************)
(* File-mediated status protocol of the headless extraction tools.         *)
(*                                                                         *)
(* Six state machines share this module, each with its own                 *)
(* specification:                                                          *)
(*   Spec           the worker-side StatusUpdater (caller thread, ticker   *)
(*                  threads, the mailbox file and a reader of it);         *)
(*   SpecMonitor    the host-side ExtractionMonitor polling the mailbox    *)
(*                  against a wall clock;                                  *)
(*   SpecSupervisor run_extraction: launch, wait, exit paths and teardown. *)
(*   SpecLog        the LogManager: status files, historical logs and the  *)
(*                  throttled archive;                                     *)
(*   SpecTicker     the StatusUpdater started once, its ticker's writes    *)
(*                  failing at times;                                      *)
(*   SpecJournal    a StatusUpdater with its LogManager, call by call, on  *)
(*                  a file system where some paths cannot be written: what *)
(*                  each call leaves in the mailbox and in the logs.       *)
(* A specification leaves the variables of the other machines unchanged.   *)
(***************************************************************************)
EXTENDS Integers, Sequences, FiniteSets, TLC

(* ------------------------------ bounds --------------------------------- *)
\* update_status calls that increment are allowed while steps_completed is
\* below this (above the largest total_steps, so the 100% cap is exercised).
MaxSteps == 6
\* ticker threads one StatusUpdater instance may have spawned (start() calls).
MaxTickers == 2
\* the wall clock stops advancing here (seconds): room for two inactivity
\* windows.
MaxClock == 250
\* the same for the supervisor's clock: just past the worker's time budget.
MaxJobClock == 610
\* the same for the LogManager's clock: two archive intervals.
MaxLogClock == 172800
\* archive_logs(force=True) calls are allowed while fewer archive runs than
\* this have left copies.
MaxArchiveRuns == 2
\* calls of the StatusUpdater that append to a log are allowed while the logs
\* hold fewer entries than this.
MaxJournal == 5

(* ------------------------- program constants --------------------------- *)
TotalStepsDefault == 5
TotalStepsDocker == 4
PercentCap == 100
\* ExtractionMonitor._monitor_loop: seconds without a status file, and seconds
\* without a change of its content, before a warning.
BootstrapGrace == 60
InactivityWindow == 120
\* HeadlessExtractor.run: MAX_EXTRACTION_TIME, the worker's own time budget.
MAX_EXTRACTION_TIME == 600

VARIABLES
    \* ---- StatusUpdater (worker side) ----
    cls,              \* which class: "full" (status_updater.py), "docker"
                      \* (DockerStatusUpdater), "local" (headless_extractor.py)
    running,          \* self.running
    steps_completed,  \* self.steps_completed
    total_steps,      \* self.total_steps
    current_status,   \* self.current_status: [prefix, msg]
    has_problem,      \* self.has_problem (full/docker only)
    locked,           \* self.lock is held
    cpc,              \* caller thread position: "idle", "start_w", "upd_w"
    cjob,             \* the caller's _write_status in progress: [line, n]
    tpc,              \* ticker thread positions, per thread
    tjob,             \* each ticker's _write_status in progress
    start_time,       \* self.start_time
    observed,         \* what the last read of the status file returned
    \* ---- shared by both sides ----
    mailbox,          \* the status file container_status.txt: [exists, lines]
    clock,            \* time.time(), in seconds
    \* ---- ExtractionMonitor (host side) and its environment ----
    proc,             \* the worker process: "running" or "exited"
    dir_exists,       \* self.status_file.parent.exists()
    m_running,        \* monitor.running
    m_start_time,     \* monitor.start_time
    last_status,      \* monitor.last_status (the text of the file, as lines)
    last_status_update,        \* local of _monitor_loop
    inactivity_warning_shown,  \* local of _monitor_loop
    m_has_problem,    \* monitor.has_problem
    mpc,              \* monitor thread position
    m_status,         \* local `status` of _monitor_loop, to be written back
    stdout_ready,     \* the worker's stdout pipe holds a line
    stderr_ready,     \* the worker's stderr pipe holds a line
    worker_wrote,     \* the worker has written the status file at least once
    boot_warnings,    \* "No status file created" warnings printed
    inact_warnings,   \* "No status updates" warnings printed
    \* ---- run_extraction (supervisor) and its environment ----
    spc,              \* position in run_extraction
    handler,          \* the SIGINT handler in force: "original" or "custom"
    original_saved,   \* original_sigint has been assigned
    cleanup_count,    \* executions of cleanup_container
    xkind,            \* the except clause entered: "timeout", "kbd", "exc"
    pending,          \* what leaves the try statement: "return", "sysexit", "raise"
    result,           \* the dictionary returned: [status, message]
    outcome,          \* how run_extraction ended
    returncode,       \* process.returncode
    timed_out,        \* the worker ran into its time budget without completing
    sigint_sent,      \* the operator has pressed Ctrl+C
    sigint_phase,     \* the worker process when Ctrl+C arrived: "none" (no
                      \* Ctrl+C yet), "unlaunched", "running", "exited"
    cli,              \* which extraction_cli.py: "root" (src/extraction_cli.py)
                      \* or "package" (src/headless_browser/extraction_cli.py)
    artifacts,        \* the places where a file with the output's name exists
    produced,         \* the places where the worker of this job has saved it
    exit_code,        \* the exit status of the CLI process
    \* ---- LogManager ----
    last_archive_check,  \* self.last_archive_check
    live,             \* the three status files: content, or NoFile
    hist,             \* the historical logs under logs/ that exist
    archive,          \* the copies under logs/archive: [file, at, content]
    unforced_runs,    \* archive runs made by calls with force=False
    job_stopped,      \* StatusUpdater.stop() has run and start() has not since
    journal,          \* the lines of each log under logs/ and of the error log
    faults,           \* the paths that cannot be written or created
    escaped           \* the functions the last call's exception propagated out of

updVars == <<cls, running, steps_completed, total_steps, current_status,
             has_problem, locked, cpc, cjob, tpc, tjob, start_time, observed>>

monVars == <<proc, dir_exists, m_running, m_start_time, last_status,
             last_status_update, inactivity_warning_shown, m_has_problem, mpc,
             m_status, stdout_ready, stderr_ready, worker_wrote, boot_warnings,
             inact_warnings>>

logVars == <<last_archive_check, live, hist, archive, unforced_runs,
             job_stopped, journal, faults, escaped>>

supVars == <<spc, handler, original_saved, cleanup_count, xkind, pending,
             result, outcome, returncode, timed_out, sigint_sent, sigint_phase,
             cli, artifacts, produced, exit_code, logVars>>

vars == <<updVars, mailbox, clock, monVars, supVars>>

(* ------------------------- status file content ------------------------- *)
Msgs == {"m1"}

PROBLEM == "I HAVE A PROBLEM: "
SUCCESS == "SUCCESSFULLY COMPLETED: "
PROGRESS == "PROGRESS UPDATE: "
NoPrefix == ""

\* One text line of the file: the severity prefix, the message, and, when sfx,
\* the ticker's suffix "(<pct>% complete, <t>s elapsed)".
Line(prefix, msg) ==
    [prefix |-> prefix, msg |-> msg, sfx |-> FALSE, pct |-> 0, t |-> 0]
SuffixedLine(prefix, msg, pct, elapsed) ==
    [prefix |-> prefix, msg |-> msg, sfx |-> TRUE, pct |-> pct, t |-> elapsed]

\* "Last updated: <timestamp>", the second line of a record.
LastUpdatedLine(now) ==
    [prefix |-> "Last updated: ", msg |-> "", sfx |-> FALSE, pct |-> 0, t |-> now]
TornLine == Line(NoPrefix, "torn")
NoLine == Line(NoPrefix, "")

\* A complete record: the status line and the timestamp line.
Record(line, now) == <<line, LastUpdatedLine(now)>>

AbsentFile == [exists |-> FALSE, lines |-> <<>>]

\* open(path, 'w'): the file exists and is empty until the buffer is flushed.
Truncated == [exists |-> TRUE, lines |-> <<>>]

\* close() flushes "<status>\nLast updated: <ts>" at offset 0. On a file
\* another writer has filled since this writer's open() the bytes overlay the
\* other record: the result is this record when it is at least as long, and a
\* mix of the two otherwise.
Flushed(cur, line, now) ==
    IF cur.lines = <<>> \/ cur.lines = Record(line, now)
    THEN {[exists |-> TRUE, lines |-> Record(line, now)]}
    ELSE {[exists |-> TRUE, lines |-> Record(line, now)],
          [exists |-> TRUE, lines |-> <<TornLine>>]}

\* Number of open/close cycles on the status file one _write_status makes:
\* the full class writes it directly and again through LogManager.write_status.
FileWrites(c) == IF c = "local" THEN 1 ELSE 2

NoJob == [line |-> NoLine, n |-> 0]
NewJob(c, line) == [line |-> line, n |-> 2 * FileWrites(c)]

\* One step of a write job on the file: with an even number of steps left the
\* next step is an open (truncate), with an odd number a close (flush).
JobStep(job, file, now) ==
    IF job.n % 2 = 0 THEN {Truncated} ELSE Flushed(file, job.line, now)

(* ------------------------------ progress ------------------------------- *)
Min(a, b) == IF a < b THEN a ELSE b

\* min(100, int((steps_completed / total_steps) * 100)). The double-precision
\* quotient and product are exact enough that int() equals the integer floor
\* for every steps <= total, and both are >= 100 above that.
ProgressNoCap(steps, total) == (steps * 100) \div total
Progress(steps, total) == Min(PercentCap, (steps * 100) \div total)

(* ------------------------------- Init ---------------------------------- *)
Tickers == 1..MaxTickers

InitUpdater ==
    /\ cls \in {"full", "docker", "local"}
    /\ running = FALSE
    /\ steps_completed = 0
    /\ total_steps = IF cls = "docker" THEN TotalStepsDocker ELSE TotalStepsDefault
    /\ current_status = [prefix |-> NoPrefix, msg |-> "Initializing"]
    /\ has_problem = FALSE
    /\ locked = FALSE
    /\ cpc = "idle"
    /\ cjob = NoJob
    /\ tpc = [t \in Tickers |-> "unborn"]
    /\ tjob = [t \in Tickers |-> NoJob]
    /\ start_time = 0
    /\ observed = AbsentFile

\* ExtractionMonitor.__init__
MonitorFields ==
    /\ m_running = FALSE
    /\ m_start_time = 0
    /\ last_status = <<>>
    /\ last_status_update = 0
    /\ inactivity_warning_shown = FALSE
    /\ m_has_problem = FALSE
    /\ mpc = "off"
    /\ m_status = <<>>
    /\ stdout_ready = FALSE
    /\ stderr_ready = FALSE
    /\ worker_wrote = FALSE
    /\ boot_warnings = 0
    /\ inact_warnings = 0

(* ------------------------------ LogManager ----------------------------- *)
\* container_status.txt, extraction_status.txt, debug_log.txt
StatusFiles == {"container_status", "extraction_status", "debug_log"}
\* logs/container_log.log, logs/extraction_log.log and the domain partition
\* logs/<domain>/extraction_log.log, logs/<domain>/extraction_events.log
HistoricalLogs == {"container_log", "extraction_log", "domain/extraction_log",
                   "domain/extraction_events"}
NoFile == "absent"
\* what a status file can hold
Statuses == {"s1", "s2"}
\* LogManager.__init__: archive_check_interval, in seconds
archive_check_interval == 86400

\* The files a StatusUpdater call appends to: the historical logs it uses and
\* status_write_error.log in the shared directory.
JournalFiles == {"container_log", "domain/extraction_log",
                 "domain/extraction_events", "status_write_error"}
\* What can be wrong with the file system: container_status.txt cannot be
\* opened for writing, status_write_error.log cannot be opened for appending,
\* the dated directory under logs/archive cannot be created.
Faults == {"mailbox", "alt", "archive_dir"}

\* LogManager.__init__ on an empty shared directory: the archive clock starts
\* at construction; no file is created.
InitDisk ==
    /\ last_archive_check = 0
    /\ live = [f \in StatusFiles |-> NoFile]
    /\ hist = {}
    /\ archive = {}
    /\ unforced_runs = 0
    /\ job_stopped = FALSE
    /\ journal = [n \in JournalFiles |-> <<>>]
    /\ escaped = {}

InitLogManager ==
    /\ InitDisk
    /\ faults = {}

NotFound == "none"
NoResult == [status |-> "none", message |-> "", output_file |-> NotFound]

\* run_extraction at the start of its try statement, the command prepared
\* (create_docker_command has made the shared directory).
InitSupervisor ==
    /\ spc = "popen"
    /\ handler = "original"
    /\ original_saved = FALSE
    /\ cleanup_count = 0
    /\ xkind = "none"
    /\ pending = "none"
    /\ result = NoResult
    /\ outcome = "running"
    /\ returncode = 0
    /\ timed_out = FALSE
    /\ sigint_sent = FALSE
    /\ sigint_phase = "none"
    /\ exit_code = 0
    /\ produced = {}

Init ==
    /\ InitUpdater
    /\ MonitorFields
    /\ proc = "running"
    /\ dir_exists = TRUE
    /\ InitSupervisor
    /\ cli = "root"
    /\ artifacts = {}
    /\ InitLogManager
    /\ mailbox = AbsentFile
    /\ clock = 0

(* --------------------------- caller thread ----------------------------- *)
Unborn == {t \in Tickers : tpc[t] = "unborn"}
NextSlot == CHOOSE t \in Unborn : \A u \in Unborn : t <= u

\* start() sets running, start_time and last_update_time and leaves the step
\* counter as it is.
StepsAfterStartReset(steps) == 0
StepsAfterStart(steps) == steps

\* start(): running = True, spawn the ticker thread; the full class then
\* writes the initial status itself, without taking the lock.
start ==
    /\ cpc = "idle"
    /\ Unborn # {}
    /\ running' = TRUE
    /\ start_time' = clock
    /\ steps_completed' = StepsAfterStart(steps_completed)
    /\ tpc' = [tpc EXCEPT ![NextSlot] = "check"]
    /\ IF cls = "local"
       THEN UNCHANGED <<cpc, cjob>>
       ELSE /\ cpc' = "start_w"
            /\ cjob' = NewJob(cls, Line(NoPrefix, "Container started"))
    /\ UNCHANGED <<cls, total_steps, current_status,
                   has_problem, locked, tjob, observed>>
    /\ UNCHANGED <<mailbox, clock, monVars, supVars>>

\* stop(): running = False; join(timeout=1.0) returns when the thread has ended
\* or after a second, whichever is first, and changes nothing.
stop ==
    /\ cpc = "idle"
    /\ running' = FALSE
    /\ UNCHANGED <<cls, steps_completed, total_steps, current_status,
                   has_problem, locked, cpc, cjob, tpc, tjob, start_time, observed>>
    /\ UNCHANGED <<mailbox, clock, monVars, supVars>>

FormattedPrefix(c, increment_step, is_problem) ==
    IF c = "local"
    THEN (IF is_problem THEN PROBLEM ELSE NoPrefix)
    ELSE IF is_problem THEN PROBLEM
         ELSE IF increment_step THEN SUCCESS ELSE PROGRESS

\* if increment_step: self.steps_completed += 1
StepsAfter(steps, increment_step, is_problem) ==
    IF increment_step THEN steps + 1 ELSE steps

\* update_status(status, increment_step, is_problem), up to the start of its
\* _write_status: the lock is taken and the fields are set under it.
update_status(status, increment_step, is_problem) ==
    /\ cpc = "idle"
    /\ ~locked
    /\ increment_step => steps_completed < MaxSteps
    /\ locked' = TRUE
    /\ has_problem' = IF cls # "local" /\ is_problem THEN TRUE ELSE has_problem
    /\ current_status' = [prefix |-> FormattedPrefix(cls, increment_step, is_problem),
                          msg |-> status]
    /\ steps_completed' = StepsAfter(steps_completed, increment_step, is_problem)
    /\ cpc' = "upd_w"
    /\ cjob' = NewJob(cls, Line(FormattedPrefix(cls, increment_step, is_problem),
                                status))
    /\ UNCHANGED <<cls, running, total_steps, tpc, tjob, start_time, observed>>
    /\ UNCHANGED <<mailbox, clock, monVars, supVars>>

\* One open or close of the caller's _write_status. The last one ends the
\* call: update_status releases the lock, start() returns.
CallerWrite ==
    /\ cpc \in {"start_w", "upd_w"}
    /\ cjob.n > 0
    /\ mailbox' \in JobStep(cjob, mailbox, clock)
    /\ IF cjob.n = 1
       THEN /\ cjob' = NoJob
            /\ cpc' = "idle"
            /\ locked' = IF cpc = "upd_w" THEN FALSE ELSE locked
       ELSE /\ cjob' = [cjob EXCEPT !.n = cjob.n - 1]
            /\ UNCHANGED <<cpc, locked>>
    /\ UNCHANGED <<cls, running, steps_completed, total_steps, current_status,
                   has_problem, tpc, tjob, start_time, observed>>
    /\ UNCHANGED <<clock, monVars, supVars>>

(* --------------------------- ticker threads ---------------------------- *)
\* while self.running:
TickerCheck(t) ==
    /\ tpc[t] = "check"
    /\ tpc' = [tpc EXCEPT ![t] = IF running THEN "want" ELSE "dead"]
    /\ UNCHANGED <<cls, running, steps_completed, total_steps, current_status,
                   has_problem, locked, cpc, cjob, tjob, start_time, observed>>
    /\ UNCHANGED <<mailbox, clock, monVars, supVars>>

\* with self.lock: the record is formatted from the fields under the lock.
TickerAcquire(t) ==
    /\ tpc[t] = "want"
    /\ ~locked
    /\ locked' = TRUE
    /\ tjob' = [tjob EXCEPT ![t] =
                  NewJob(cls, SuffixedLine(current_status.prefix, current_status.msg,
                                           Progress(steps_completed, total_steps),
                                           clock - start_time))]
    /\ tpc' = [tpc EXCEPT ![t] = "write"]
    /\ UNCHANGED <<cls, running, steps_completed, total_steps, current_status,
                   has_problem, cpc, cjob, start_time, observed>>
    /\ UNCHANGED <<mailbox, clock, monVars, supVars>>

\* One open or close of the ticker's _write_status, still under the lock; after
\* the last the lock is released and the thread sleeps, then tests running.
TickerWrite(t) ==
    /\ tpc[t] = "write"
    /\ mailbox' \in JobStep(tjob[t], mailbox, clock)
    /\ IF tjob[t].n = 1
       THEN /\ tjob' = [tjob EXCEPT ![t] = NoJob]
            /\ tpc' = [tpc EXCEPT ![t] = "check"]
            /\ locked' = FALSE
       ELSE /\ tjob' = [tjob EXCEPT ![t].n = tjob[t].n - 1]
            /\ UNCHANGED <<tpc, locked>>
    /\ UNCHANGED <<cls, running, steps_completed, total_steps, current_status,
                   has_problem, cpc, cjob, start_time, observed>>
    /\ UNCHANGED <<clock, monVars, supVars>>

(* ------------------------------- reader -------------------------------- *)
\* A reader (the host) reads the whole file, or finds it absent.
Read ==
    /\ observed' = mailbox
    /\ UNCHANGED <<cls, running, steps_completed, total_steps, current_status,
                   has_problem, locked, cpc, cjob, tpc, tjob, start_time>>
    /\ UNCHANGED <<mailbox, clock, monVars, supVars>>

NextUpdater ==
    \/ start
    \/ stop
    \/ \E m \in Msgs, inc \in BOOLEAN, prob \in BOOLEAN : update_status(m, inc, prob)
    \/ CallerWrite
    \/ \E t \in Tickers : TickerCheck(t)
    \/ \E t \in Tickers : TickerAcquire(t)
    \/ \E t \in Tickers : TickerWrite(t)
    \/ Read

Spec == Init /\ [][NextUpdater]_vars

(* ------------------------ StatusUpdater properties --------------------- *)
\* C1: an update_status call with is_problem = TRUE leaves steps_completed as
\* it was, whatever increment_step is.
C1_ProblemKeepsSteps ==
    [][(\E m \in Msgs, inc \in BOOLEAN : update_status(m, inc, TRUE))
          => steps_completed' = steps_completed]_vars

\* C2: steps_completed never decreases, over every interleaving of start(),
\* stop(), update_status() and the ticker threads.
C2_StepsMonotone == [][steps_completed' >= steps_completed]_vars

\* start() has been called a second time after steps were counted and the
\* updater was stopped again.
C2_Witness == steps_completed >= 2 /\ Unborn = {} /\ ~running

Floor100(steps, total) == (100 * steps) \div total

\* C3: the percentage of every record a ticker publishes is in 0..100 and is
\* min(100, floor(100 * steps_completed / total_steps)), for total_steps 5
\* and 4.
C3_ProgressPercent ==
    /\ total_steps \in {TotalStepsDocker, TotalStepsDefault}
    /\ \A t \in Tickers : tpc[t] = "write" =>
          /\ tjob[t].line.sfx
          /\ tjob[t].line.pct \in 0..100
          /\ tjob[t].line.pct =
                (IF Floor100(steps_completed, total_steps) > 100 THEN 100
                 ELSE Floor100(steps_completed, total_steps))
    /\ \A i \in 1..Len(mailbox.lines) : mailbox.lines[i].pct \in 0..100

\* A DockerStatusUpdater ticker publishes with more steps counted than
\* total_steps: the cap applies.
C3_Witness ==
    /\ cls = "docker"
    /\ steps_completed > total_steps
    /\ \E t \in Tickers : tpc[t] = "write" /\ tjob[t].line.pct = 100

StartReturned == Unborn # Tickers /\ cpc # "start_w"

\* C4: once start() has returned the status file exists.
C4_StartPublishes == StartReturned => mailbox.exists

\* C5: a read of the status file returns a complete record: both lines.
C5_NoTornRead ==
    observed.exists =>
        /\ Len(observed.lines) = 2
        /\ observed.lines[2].prefix = "Last updated: "

(* ----------------------- ExtractionMonitor (host) ---------------------- *)
TimeSteps == {60, 61}

\* "I HAVE A PROBLEM:" in status
ProblemIn(lines) == \E i \in 1..Len(lines) : lines[i].prefix = PROBLEM

\* ExtractionMonitor._write_status: the file is written (one line, the status
\* text as given) when its directory exists.
MonitorWrite(file, lines, dir) ==
    IF dir THEN [exists |-> TRUE, lines |-> lines] ELSE file

\* if status != self.last_status: ... inactivity_warning_shown = False
RearmedAlways(changed, shown) == FALSE
Rearmed(changed, shown) == IF changed THEN FALSE ELSE shown

\* time.time() - last_status_update > 120 and not inactivity_warning_shown
InactivityDue(now, last_update, shown) ==
    now - last_update > InactivityWindow /\ ~shown

\* elapsed > 60 and not container_status_file.exists() and not inactivity_warning_shown
BootstrapDue(elapsed, exists, shown) ==
    elapsed > BootstrapGrace /\ ~exists /\ ~shown

\* Where the loop goes after a successful read: to input() when the text
\* holds a problem, else straight to the write-back.
NextAfterReadAbort(problem) == IF problem THEN "done" ELSE "write"
NextAfterRead(problem) == IF problem THEN "input" ELSE "write"

\* ExtractionMonitor.start(process)
MonitorStarted ==
    /\ m_start_time' = clock
    /\ m_running' = TRUE
    /\ mailbox' = MonitorWrite(mailbox, <<Line(NoPrefix, "Starting")>>, dir_exists)
    /\ mpc' = "enter"
    /\ UNCHANGED <<proc, dir_exists, last_status, last_status_update,
                   inactivity_warning_shown, m_has_problem, m_status, stdout_ready,
                   stderr_ready, worker_wrote, boot_warnings, inact_warnings>>
    /\ UNCHANGED <<updVars, clock>>

MonStart ==
    /\ mpc = "off"
    /\ MonitorStarted
    /\ UNCHANGED supVars

\* The monitor thread begins _monitor_loop: its locals are initialised.
MonEnter ==
    /\ mpc = "enter"
    /\ last_status_update' = clock
    /\ inactivity_warning_shown' = FALSE
    /\ mpc' = "poll"
    /\ UNCHANGED <<proc, dir_exists, m_running, m_start_time, last_status,
                   m_has_problem, m_status, stdout_ready, stderr_ready,
                   worker_wrote, boot_warnings, inact_warnings>>
    /\ UNCHANGED <<updVars, mailbox, clock, supVars>>

\* while self.running: false, the loop ends.
MonLoopEnd ==
    /\ mpc = "poll"
    /\ ~m_running
    /\ mpc' = "done"
    /\ UNCHANGED <<proc, dir_exists, m_running, m_start_time, last_status,
                   last_status_update, inactivity_warning_shown, m_has_problem,
                   m_status, stdout_ready, stderr_ready, worker_wrote,
                   boot_warnings, inact_warnings>>
    /\ UNCHANGED <<updVars, mailbox, clock, supVars>>

\* if self.process.poll() is not None: final line, running = False, break.
MonPollExited ==
    /\ mpc = "poll"
    /\ m_running
    /\ proc = "exited"
    /\ mailbox' = MonitorWrite(mailbox, <<Line(NoPrefix, "Extraction completed")>>,
                               dir_exists)
    /\ m_running' = FALSE
    /\ mpc' = "done"
    /\ UNCHANGED <<proc, dir_exists, m_start_time, last_status,
                   last_status_update, inactivity_warning_shown, m_has_problem,
                   m_status, stdout_ready, stderr_ready, worker_wrote,
                   boot_warnings, inact_warnings>>
    /\ UNCHANGED <<updVars, clock, supVars>>

\* The status file exists: read it, note a change, warn on inactivity, detect
\* a problem (and then wait for the operator at input()).
MonPollPresent ==
    /\ mpc = "poll"
    /\ m_running
    /\ proc = "running"
    /\ mailbox.exists
    /\ LET status == mailbox.lines
           changed == status # last_status
           since == IF changed THEN clock ELSE last_status_update
           shown == Rearmed(changed, inactivity_warning_shown)
           warn == InactivityDue(clock, since, shown)
       IN  /\ last_status' = status
           /\ last_status_update' = since
           /\ inactivity_warning_shown' = (shown \/ warn)
           /\ inact_warnings' = inact_warnings + (IF warn THEN 1 ELSE 0)
           /\ m_has_problem' = (m_has_problem \/ ProblemIn(status))
           /\ m_status' = status
           /\ mpc' = NextAfterRead(ProblemIn(status))
    /\ UNCHANGED <<proc, dir_exists, m_running, m_start_time, stdout_ready,
                   stderr_ready, worker_wrote, boot_warnings>>
    /\ UNCHANGED <<updVars, mailbox, clock, supVars>>

\* The status file exists but read_text raises: the except clause logs the
\* error and the iteration goes on to the pipes.
MonPollError ==
    /\ mpc = "poll"
    /\ m_running
    /\ proc = "running"
    /\ mailbox.exists
    /\ mpc' = "rd_out"
    /\ UNCHANGED <<proc, dir_exists, m_running, m_start_time, last_status,
                   last_status_update, inactivity_warning_shown, m_has_problem,
                   m_status, stdout_ready, stderr_ready, worker_wrote,
                   boot_warnings, inact_warnings>>
    /\ UNCHANGED <<updVars, mailbox, clock, supVars>>

\* No status file: warn once the bootstrap grace is over, write the spinner
\* line.
MonPollAbsent ==
    /\ mpc = "poll"
    /\ m_running
    /\ proc = "running"
    /\ ~mailbox.exists
    /\ LET elapsed == clock - m_start_time
           warn == BootstrapDue(elapsed, mailbox.exists, inactivity_warning_shown)
       IN  /\ inactivity_warning_shown' = (inactivity_warning_shown \/ warn)
           /\ boot_warnings' = boot_warnings + (IF warn THEN 1 ELSE 0)
           /\ mailbox' = MonitorWrite(mailbox,
                   <<SuffixedLine(NoPrefix, "Extraction in progress", 0, elapsed)>>,
                   dir_exists)
    /\ mpc' = "rd_out"
    /\ UNCHANGED <<proc, dir_exists, m_running, m_start_time, last_status,
                   last_status_update, m_has_problem, m_status, stdout_ready,
                   stderr_ready, worker_wrote, inact_warnings>>
    /\ UNCHANGED <<updVars, clock, supVars>>

\* The operator answers the prompt of input().
MonInput ==
    /\ mpc = "input"
    /\ mpc' = "write"
    /\ UNCHANGED <<proc, dir_exists, m_running, m_start_time, last_status,
                   last_status_update, inactivity_warning_shown, m_has_problem,
                   m_status, stdout_ready, stderr_ready, worker_wrote,
                   boot_warnings, inact_warnings>>
    /\ UNCHANGED <<updVars, mailbox, clock, supVars>>

\* self._write_status(status): the text read is written back to the file.
MonWriteBack ==
    /\ mpc = "write"
    /\ mailbox' = MonitorWrite(mailbox, m_status, dir_exists)
    /\ mpc' = "rd_out"
    /\ UNCHANGED <<proc, dir_exists, m_running, m_start_time, last_status,
                   last_status_update, inactivity_warning_shown, m_has_problem,
                   m_status, stdout_ready, stderr_ready, worker_wrote,
                   boot_warnings, inact_warnings>>
    /\ UNCHANGED <<updVars, clock, supVars>>

\* self.process.stdout.readline(): returns when the pipe holds a line, or at
\* end of file (the worker has exited).
MonReadStdout ==
    /\ mpc = "rd_out"
    /\ stdout_ready \/ proc = "exited"
    /\ stdout_ready' = FALSE
    /\ mpc' = "rd_err"
    /\ UNCHANGED <<proc, dir_exists, m_running, m_start_time, last_status,
                   last_status_update, inactivity_warning_shown, m_has_problem,
                   m_status, stderr_ready, worker_wrote, boot_warnings,
                   inact_warnings>>
    /\ UNCHANGED <<updVars, mailbox, clock, supVars>>

\* self.process.stderr.readline(), then time.sleep(1) and the next iteration.
MonReadStderr ==
    /\ mpc = "rd_err"
    /\ stderr_ready \/ proc = "exited"
    /\ stderr_ready' = FALSE
    /\ mpc' = "poll"
    /\ UNCHANGED <<proc, dir_exists, m_running, m_start_time, last_status,
                   last_status_update, inactivity_warning_shown, m_has_problem,
                   m_status, stdout_ready, worker_wrote, boot_warnings,
                   inact_warnings>>
    /\ UNCHANGED <<updVars, mailbox, clock, supVars>>

\* ExtractionMonitor.stop(): running = False; the join(timeout=1.0) changes
\* nothing.
MonitorStopped ==
    /\ m_running' = FALSE
    /\ UNCHANGED <<dir_exists, m_start_time, last_status,
                   last_status_update, inactivity_warning_shown, m_has_problem,
                   mpc, m_status, stdout_ready, stderr_ready, worker_wrote,
                   boot_warnings, inact_warnings>>
    /\ UNCHANGED <<updVars, mailbox, clock>>

\* monitor.stop(), called by the supervisor.
MonStop ==
    /\ mpc \notin {"off", "done"}
    /\ m_running
    /\ MonitorStopped
    /\ UNCHANGED <<proc, supVars>>

MonitorThread ==
    \/ MonEnter
    \/ MonLoopEnd
    \/ MonPollExited
    \/ MonPollPresent
    \/ MonPollError
    \/ MonPollAbsent
    \/ MonWriteBack
    \/ MonReadStdout
    \/ MonReadStderr

(* ------------------- the worker, seen from the host -------------------- *)
\* A publish of the worker's StatusUpdater to the polled file: the directory
\* is created on demand, the record carries the time of writing.
WorkerPublish(prefix) ==
    /\ proc = "running"
    /\ mailbox' = [exists |-> TRUE,
                   lines |-> Record(SuffixedLine(prefix, "m1", 0, clock), clock)]
    /\ dir_exists' = TRUE
    /\ worker_wrote' = TRUE
    /\ UNCHANGED <<proc, m_running, m_start_time, last_status,
                   last_status_update, inactivity_warning_shown, m_has_problem,
                   mpc, m_status, stdout_ready, stderr_ready, boot_warnings,
                   inact_warnings>>
    /\ UNCHANGED <<updVars, clock, supVars>>

\* The worker prints a line on stdout / stderr.
WorkerPrint ==
    /\ proc = "running"
    /\ \/ ~stdout_ready /\ stdout_ready' = TRUE /\ UNCHANGED stderr_ready
       \/ ~stderr_ready /\ stderr_ready' = TRUE /\ UNCHANGED stdout_ready
    /\ UNCHANGED <<proc, dir_exists, m_running, m_start_time, last_status,
                   last_status_update, inactivity_warning_shown, m_has_problem,
                   mpc, m_status, worker_wrote, boot_warnings, inact_warnings>>
    /\ UNCHANGED <<updVars, mailbox, clock, supVars>>

WorkerExit ==
    /\ proc = "running"
    /\ proc' = "exited"
    /\ UNCHANGED <<dir_exists, m_running, m_start_time, last_status,
                   last_status_update, inactivity_warning_shown, m_has_problem,
                   mpc, m_status, stdout_ready, stderr_ready, worker_wrote,
                   boot_warnings, inact_warnings>>
    /\ UNCHANGED <<updVars, mailbox, clock, supVars>>

\* Time passes. The clock counts from the moment the monitor is started (the
\* supervisor starts it right after launching the worker).
Tick(d) ==
    /\ mpc # "off"
    /\ clock + d <= MaxClock
    /\ clock' = clock + d
    /\ UNCHANGED <<updVars, mailbox, monVars, supVars>>

NextMonitor ==
    \/ MonStart
    \/ MonitorThread
    \/ MonInput
    \/ MonStop
    \/ \E prefix \in {NoPrefix, PROBLEM} : WorkerPublish(prefix)
    \/ WorkerPrint
    \/ WorkerExit
    \/ \E d \in TimeSteps : Tick(d)

\* An ExtractionMonitor handed a worker that has been launched.
InitHost ==
    /\ InitUpdater
    /\ cls = "full"
    /\ MonitorFields
    /\ proc = "running"
    /\ dir_exists \in BOOLEAN
    /\ InitSupervisor
    /\ cli = "root"
    /\ artifacts = {}
    /\ InitLogManager
    /\ mailbox = AbsentFile
    /\ clock = 0

SpecMonitor == InitHost /\ [][NextMonitor]_vars

\* The monitor thread is scheduled whenever it can take a step.
FairSpecMonitor == SpecMonitor /\ WF_vars(MonitorThread)

(* ---------------------- ExtractionMonitor properties ------------------- *)
PollAfterGrace ==
    /\ MonPollPresent \/ MonPollAbsent
    /\ ~worker_wrote
    /\ clock - m_start_time > BootstrapGrace

\* C6: with the worker never having created the status file, a poll made more
\* than 60 s after monitoring started leaves the bootstrap warning issued, and
\* issued exactly once.
C6_BootstrapWarnedOnce == [][PollAfterGrace => boot_warnings' = 1]_vars

ChangeObserved == MonPollPresent /\ mailbox.lines # last_status

\* C7: the warning flag is re-armed only by a poll that reads changed content,
\* the inactivity clock is reset only by such a poll, and a warning is issued
\* only with the flag down, which it raises: at most one warning between two
\* observed changes.
C7_WarnOncePerChange ==
    [][/\ (inactivity_warning_shown /\ ~inactivity_warning_shown') => ChangeObserved
       /\ (mpc # "enter" /\ last_status_update' # last_status_update) => ChangeObserved
       /\ (boot_warnings' + inact_warnings' # boot_warnings + inact_warnings) =>
             /\ ~inactivity_warning_shown
             /\ inactivity_warning_shown'
             /\ boot_warnings' + inact_warnings' = boot_warnings + inact_warnings + 1
      ]_vars

\* Two inactivity warnings have been issued: one, activity, and another.
C7_Witness == inact_warnings = 2

\* The worker runs, the monitor polls, and the content it last saw has been in
\* the file for longer than the inactivity window.
Stalled ==
    /\ m_running
    /\ proc = "running"
    /\ mpc \in {"poll", "write", "rd_out", "rd_err"}
    /\ mailbox.exists
    /\ mailbox.lines = last_status
    /\ ~ProblemIn(mailbox.lines)
    /\ clock - last_status_update > InactivityWindow

\* C8: content unchanged for longer than the inactivity window, with the
\* worker running, leads to an inactivity warning (each time it happens).
C8_InactivityWarned == Stalled ~> (inactivity_warning_shown \/ ~Stalled)

(* ------------------------ run_extraction (host) ------------------------ *)
BudgetSteps == {300, 301}

\* subprocess.Popen(cmd, ...): the worker is launched, or the launch raises.
SupPopen ==
    /\ spc = "popen"
    /\ \/ proc' = "running" /\ spc' = "mon_start" /\ UNCHANGED xkind
       \/ proc' = proc /\ spc' = "x_cleanup" /\ xkind' = "exc"
    /\ UNCHANGED <<handler, original_saved, cleanup_count, pending, result,
                   outcome, returncode, timed_out, sigint_sent>>
    /\ UNCHANGED <<dir_exists, m_running, m_start_time, last_status,
                   last_status_update, inactivity_warning_shown, m_has_problem,
                   mpc, m_status, stdout_ready, stderr_ready, worker_wrote,
                   boot_warnings, inact_warnings>>
    /\ UNCHANGED <<updVars, mailbox, clock>>
    /\ UNCHANGED <<sigint_phase, cli, artifacts, produced, exit_code,
                   logVars>>

\* monitor.start(process)
SupMonitorStart ==
    /\ spc = "mon_start"
    /\ MonitorStarted
    /\ spc' = "save_sig"
    /\ UNCHANGED <<handler, original_saved, cleanup_count, xkind, pending,
                   result, outcome, returncode, timed_out, sigint_sent>>
    /\ UNCHANGED <<sigint_phase, cli, artifacts, produced, exit_code,
                   logVars>>

\* original_sigint = signal.getsignal(signal.SIGINT)
SupSaveHandler ==
    /\ spc = "save_sig"
    /\ original_saved' = TRUE
    /\ spc' = "install"
    /\ UNCHANGED <<handler, cleanup_count, xkind, pending, result, outcome,
                   returncode, timed_out, sigint_sent>>
    /\ UNCHANGED <<updVars, mailbox, clock, monVars>>
    /\ UNCHANGED <<sigint_phase, cli, artifacts, produced, exit_code,
                   logVars>>

\* signal.signal(signal.SIGINT, signal_handler), then process.communicate()
SupInstallHandler ==
    /\ spc = "install"
    /\ handler' = "custom"
    /\ spc' = "communicate"
    /\ UNCHANGED <<original_saved, cleanup_count, xkind, pending, result,
                   outcome, returncode, timed_out, sigint_sent>>
    /\ UNCHANGED <<updVars, mailbox, clock, monVars>>
    /\ UNCHANGED <<sigint_phase, cli, artifacts, produced, exit_code,
                   logVars>>

\* process.communicate() returns: the worker has exited. It has no timeout.
SupCommunicate ==
    /\ spc = "communicate"
    /\ proc = "exited"
    /\ spc' = "post"
    /\ UNCHANGED <<handler, original_saved, cleanup_count, xkind, pending,
                   result, outcome, returncode, timed_out, sigint_sent>>
    /\ UNCHANGED <<updVars, mailbox, clock, monVars>>
    /\ UNCHANGED <<sigint_phase, cli, artifacts, produced, exit_code,
                   logVars>>

\* The places find_output_file looks in: Path(output_file), shared/<name>,
\* shared/<subdir>/<name>, and a match of shared/**/<name> below those.
Locations == {"exact", "shared", "subdir", "deep"}

\* find_output_file(base_path, filename), over the places where the file
\* exists.
find_output_fileGlobFirst(a) ==
    IF "deep" \in a THEN "deep"
    ELSE IF "exact" \in a THEN "exact"
    ELSE IF "shared" \in a THEN "shared"
    ELSE IF "subdir" \in a THEN "subdir"
    ELSE NotFound
find_output_file(a) ==
    IF "exact" \in a THEN "exact"
    ELSE IF "shared" \in a THEN "shared"
    ELSE IF "subdir" \in a THEN "subdir"
    ELSE IF "deep" \in a THEN "deep"
    ELSE NotFound

\* The lookup each run_extraction makes: find_output_file, or the single
\* test (DEFAULT_OUTPUT_DIR / output_file).exists() of the package file.
OutputLookup(c, a) ==
    IF c = "root" THEN find_output_file(a)
    ELSE IF "shared" \in a THEN "shared" ELSE NotFound

\* The dictionary returned after a normal wait, from the return code and from
\* the path the lookup found.
Completed(code, found_path) ==
    IF code = 0
    THEN (IF found_path # NotFound
          THEN [status |-> "success", message |-> "", output_file |-> found_path]
          ELSE [status |-> "warning",
                message |-> "Process completed but output file not found",
                output_file |-> NotFound])
    ELSE [status |-> "error", message |-> "Extraction failed with exit code",
          output_file |-> NotFound]

\* monitor.stop(), then the result by return code and output file.
SupResult ==
    /\ spc = "post"
    /\ MonitorStopped
    /\ result' = Completed(returncode, OutputLookup(cli, artifacts))
    /\ pending' = "return"
    /\ spc' = "finally"
    /\ UNCHANGED <<proc, handler, original_saved, cleanup_count, xkind, outcome,
                   returncode, timed_out, sigint_sent>>
    /\ UNCHANGED <<sigint_phase, cli, artifacts, produced, exit_code,
                   logVars>>

\* Ctrl+C. Under the original handler it raises KeyboardInterrupt in the try
\* body; under signal_handler the handler runs.
Sigint ==
    /\ ~sigint_sent
    /\ sigint_sent' = TRUE
    /\ sigint_phase' = (IF proc = "none" THEN "unlaunched" ELSE proc)
    /\ \/ /\ handler = "original"
          /\ spc \in {"popen", "mon_start", "save_sig", "install"}
          /\ spc' = "x_cleanup"
          /\ xkind' = "kbd"
       \/ /\ handler = "custom"
          /\ spc \in {"communicate", "post"}
          /\ spc' = "h_cleanup"
          /\ UNCHANGED xkind
    /\ UNCHANGED <<handler, original_saved, cleanup_count, pending, result,
                   outcome, returncode, timed_out>>
    /\ UNCHANGED <<updVars, mailbox, clock, monVars>>
    /\ UNCHANGED <<cli, artifacts, produced, exit_code,
                   logVars>>

\* cleanup_container(container_name): docker stop, docker rm -f; it catches
\* its own errors.
cleanup_container(n) == n + 1

\* The teardown call at a place where src/extraction_cli.py has one;
\* src/headless_browser/extraction_cli.py has none anywhere in run_extraction.
Teardown(c, n) == IF c = "root" THEN cleanup_container(n) ELSE n

\* signal_handler: cleanup_container(container_name)
HandlerCleanup ==
    /\ spc = "h_cleanup"
    /\ cleanup_count' = Teardown(cli, cleanup_count)
    /\ spc' = "h_stop"
    /\ UNCHANGED <<handler, original_saved, xkind, pending, result, outcome,
                   returncode, timed_out, sigint_sent>>
    /\ UNCHANGED <<updVars, mailbox, clock, monVars>>
    /\ UNCHANGED <<sigint_phase, cli, artifacts, produced, exit_code,
                   logVars>>

\* signal_handler: monitor.stop()
HandlerStop ==
    /\ spc = "h_stop"
    /\ MonitorStopped
    /\ spc' = "h_term"
    /\ UNCHANGED <<proc, handler, original_saved, cleanup_count, xkind, pending,
                   result, outcome, returncode, timed_out, sigint_sent>>
    /\ UNCHANGED <<sigint_phase, cli, artifacts, produced, exit_code,
                   logVars>>

\* signal_handler: if process.poll() is None: terminate(), wait(timeout=5).
\* The worker ends within the five seconds, or wait raises TimeoutExpired,
\* which leaves the handler and is raised in the try body.
HandlerTerminate ==
    /\ spc = "h_term"
    /\ \/ /\ proc = "exited"
          /\ spc' = "h_exit"
          /\ UNCHANGED <<proc, returncode, xkind>>
       \/ /\ proc = "running"
          /\ proc' = "exited"
          /\ returncode' = 1
          /\ spc' = "h_exit"
          /\ UNCHANGED xkind
       \/ /\ proc = "running"
          /\ spc' = "x_cleanup"
          /\ xkind' = "timeout"
          /\ UNCHANGED <<proc, returncode>>
    /\ UNCHANGED <<handler, original_saved, cleanup_count, pending, result,
                   outcome, timed_out, sigint_sent>>
    /\ UNCHANGED <<dir_exists, m_running, m_start_time, last_status,
                   last_status_update, inactivity_warning_shown, m_has_problem,
                   mpc, m_status, stdout_ready, stderr_ready, worker_wrote,
                   boot_warnings, inact_warnings>>
    /\ UNCHANGED <<updVars, mailbox, clock>>
    /\ UNCHANGED <<sigint_phase, cli, artifacts, produced, exit_code,
                   logVars>>

\* signal.signal(signal.SIGINT, original_sigint): the handler saved before
\* signal_handler was installed is in force again.
RestoreSigintSkipped(h) == h
RestoreSigint(h) == "original"

\* signal_handler: signal.signal(SIGINT, original_sigint); sys.exit(1).
\* SystemExit is caught by no except clause.
HandlerExit ==
    /\ spc = "h_exit"
    /\ handler' = RestoreSigint(handler)
    /\ pending' = "sysexit"
    /\ spc' = "finally"
    /\ UNCHANGED <<original_saved, cleanup_count, xkind, result, outcome,
                   returncode, timed_out, sigint_sent>>
    /\ UNCHANGED <<updVars, mailbox, clock, monVars>>
    /\ UNCHANGED <<sigint_phase, cli, artifacts, produced, exit_code,
                   logVars>>

\* except TimeoutExpired / KeyboardInterrupt / Exception:
\* cleanup_container(container_name)
ExceptCleanup ==
    /\ spc = "x_cleanup"
    /\ cleanup_count' = Teardown(cli, cleanup_count)
    /\ spc' = "x_stop"
    /\ UNCHANGED <<handler, original_saved, xkind, pending, result, outcome,
                   returncode, timed_out, sigint_sent>>
    /\ UNCHANGED <<updVars, mailbox, clock, monVars>>
    /\ UNCHANGED <<sigint_phase, cli, artifacts, produced, exit_code,
                   logVars>>

\* The dictionary an except clause returns.
Excepted(kind) ==
    IF kind = "kbd"
    THEN [status |-> "cancelled", message |-> "Cancelled by user",
          output_file |-> NotFound]
    ELSE IF kind = "timeout"
    THEN [status |-> "error", message |-> "Process timed out",
          output_file |-> NotFound]
    ELSE [status |-> "error", message |-> "str(e)", output_file |-> NotFound]

\* except clause: monitor.stop(), return {...}. On a monitor that was never
\* started stop() raises AttributeError (monitor_thread is not set).
ExceptStop ==
    /\ spc = "x_stop"
    /\ IF mpc = "off"
       THEN /\ pending' = "raise"
            /\ UNCHANGED <<result, monVars, updVars, mailbox, clock>>
       ELSE /\ MonitorStopped
            /\ UNCHANGED proc
            /\ result' = Excepted(xkind)
            /\ pending' = "return"
    /\ spc' = "finally"
    /\ UNCHANGED <<handler, original_saved, cleanup_count, xkind, outcome,
                   returncode, timed_out, sigint_sent>>
    /\ UNCHANGED <<sigint_phase, cli, artifacts, produced, exit_code,
                   logVars>>

\* finally: signal.signal(SIGINT, original_sigint) -- UnboundLocalError when
\* original_sigint was never assigned -- then cleanup_container.
Finally ==
    /\ spc = "finally"
    /\ spc' = "end"
    /\ IF original_saved
       THEN /\ handler' = RestoreSigint(handler)
            /\ cleanup_count' = Teardown(cli, cleanup_count)
            /\ outcome' = (IF pending = "return" THEN "returned"
                           ELSE IF pending = "sysexit" THEN "sysexit" ELSE "raised")
            /\ UNCHANGED result
       ELSE /\ outcome' = "raised"
            /\ result' = NoResult
            /\ UNCHANGED <<handler, cleanup_count>>
    /\ UNCHANGED <<original_saved, xkind, pending, returncode, timed_out,
                   sigint_sent>>
    /\ UNCHANGED <<updVars, mailbox, clock, monVars>>
    /\ UNCHANGED <<sigint_phase, cli, artifacts, produced, exit_code,
                   logVars>>

\* The worker process ends by itself with the given exit status.
SupWorkerExit(code) ==
    /\ proc = "running"
    /\ proc' = "exited"
    /\ returncode' = code
    /\ UNCHANGED <<spc, handler, original_saved, cleanup_count, xkind, pending,
                   result, outcome, timed_out, sigint_sent>>
    /\ UNCHANGED <<dir_exists, m_running, m_start_time, last_status,
                   last_status_update, inactivity_warning_shown, m_has_problem,
                   mpc, m_status, stdout_ready, stderr_ready, worker_wrote,
                   boot_warnings, inact_warnings>>
    /\ UNCHANGED <<updVars, mailbox, clock>>
    /\ UNCHANGED <<sigint_phase, cli, artifacts, produced, exit_code,
                   logVars>>

\* HeadlessExtractor.run: asyncio.wait_for(extraction_task, 600) times out;
\* run returns {"status": "timeout"}, main() writes the metadata and returns,
\* and the worker process exits with status 0.
WorkerBudgetExit ==
    /\ proc = "running"
    /\ clock >= MAX_EXTRACTION_TIME
    /\ proc' = "exited"
    /\ returncode' = 0
    /\ timed_out' = TRUE
    /\ UNCHANGED <<spc, handler, original_saved, cleanup_count, xkind, pending,
                   result, outcome, sigint_sent>>
    /\ UNCHANGED <<dir_exists, m_running, m_start_time, last_status,
                   last_status_update, inactivity_warning_shown, m_has_problem,
                   mpc, m_status, stdout_ready, stderr_ready, worker_wrote,
                   boot_warnings, inact_warnings>>
    /\ UNCHANGED <<updVars, mailbox, clock>>
    /\ UNCHANGED <<sigint_phase, cli, artifacts, produced, exit_code,
                   logVars>>

\* Time passes while the worker runs; the clock counts from its launch.
TickJob(d) ==
    /\ proc = "running"
    /\ clock + d <= MaxJobClock
    /\ clock' = clock + d
    /\ UNCHANGED <<updVars, mailbox, monVars, supVars>>

\* The worker saves a file with the output's name in one of the places.
WorkerSaves(loc) ==
    /\ proc = "running"
    /\ artifacts' = artifacts \cup {loc}
    /\ produced' = produced \cup {loc}
    /\ UNCHANGED <<spc, handler, original_saved, cleanup_count, xkind, pending,
                   result, outcome, returncode, timed_out, sigint_sent,
                   sigint_phase, cli, exit_code, logVars>>
    /\ UNCHANGED <<updVars, mailbox, clock, monVars>>

\* The exit status of the CLI process: cli_mode and interactive_mode return
\* None whatever the result's status (sys.exit(None) is 0); SystemExit(1) from
\* the signal handler and an escaped exception end the process with 1.
ExitCode(o) == IF o = "returned" THEN 0 ELSE 1

\* cli_mode / interactive_mode after run_extraction, and the __main__ block.
CliExit ==
    /\ spc = "end"
    /\ spc' = "exited"
    /\ exit_code' = ExitCode(outcome)
    /\ UNCHANGED <<handler, original_saved, cleanup_count, xkind, pending,
                   result, outcome, returncode, timed_out, sigint_sent,
                   sigint_phase, cli, artifacts, produced, logVars>>
    /\ UNCHANGED <<updVars, mailbox, clock, monVars>>

\* The steps of the thread that runs run_extraction.
SupervisorThread ==
    \/ SupPopen
    \/ SupMonitorStart
    \/ SupSaveHandler
    \/ SupInstallHandler
    \/ SupCommunicate
    \/ SupResult
    \/ HandlerCleanup
    \/ HandlerStop
    \/ HandlerTerminate
    \/ HandlerExit
    \/ ExceptCleanup
    \/ ExceptStop
    \/ Finally
    \/ CliExit

NextSupervisor ==
    \/ SupPopen
    \/ SupMonitorStart
    \/ SupSaveHandler
    \/ SupInstallHandler
    \/ SupCommunicate
    \/ SupResult
    \/ Sigint
    \/ HandlerCleanup
    \/ HandlerStop
    \/ HandlerTerminate
    \/ HandlerExit
    \/ ExceptCleanup
    \/ ExceptStop
    \/ Finally
    \/ CliExit
    \/ \E loc \in Locations : WorkerSaves(loc)
    \/ \E code \in {0, 1} : SupWorkerExit(code)
    \/ WorkerBudgetExit
    \/ \E d \in BudgetSteps : TickJob(d)

CliFiles == {"root", "package"}

\* What is on disk when run_extraction is called: nothing with the output's
\* name, or the declared output file itself, left by an earlier job for the
\* same domain, date and type.
PriorArtifacts == {{}, {"exact"}}

\* run_extraction about to launch the worker.
InitJob ==
    /\ InitUpdater
    /\ cls = "full"
    /\ MonitorFields
    /\ proc = "none"
    /\ dir_exists = TRUE
    /\ InitSupervisor
    /\ cli \in CliFiles
    /\ artifacts \in PriorArtifacts
    /\ InitLogManager
    /\ mailbox = AbsentFile
    /\ clock = 0

SpecSupervisor == InitJob /\ [][NextSupervisor]_vars

\* The main thread is scheduled; nothing obliges the worker to end or the
\* operator to press Ctrl+C.
FairSpecSupervisor == SpecSupervisor /\ WF_vars(SupervisorThread)

(* ------------------------ run_extraction properties -------------------- *)
\* C9: a job that ran into the 600 s budget without completing ends with
\* run_extraction returning a timed-out result.
C9_TimedOutReported ==
    (spc = "end" /\ cli = "root" /\ timed_out) =>
        (outcome = "returned" /\ result.message = "Process timed out")

\* C10: when run_extraction has ended, cleanup_container has executed exactly
\* once, whichever exit paths were taken.
C10_TeardownOnce == (spc = "end" /\ cli = "root") => cleanup_count = 1

\* docker run --rm removes the container when the worker process ends;
\* cleanup_container stops and removes it.
ContainerRemoved == proc = "exited" \/ cleanup_count >= 1

\* C11: whenever run_extraction has ended after the worker was launched, the
\* worker's container has been stopped and removed.
C11_TerminalTornDown == (spc = "end" /\ proc # "none") => ContainerRemoved

\* C13: after Ctrl+C with the worker launched and running, the worker is
\* eventually not running.
C13_InterruptStopsWorker == (sigint_phase = "running") ~> ContainerRemoved

\* C14: a job interrupted while it runs ends with run_extraction returning
\* the status "cancelled".
C14_InterruptCancelled ==
    (spc = "end" /\ cli = "root" /\ sigint_phase = "running") =>
        (outcome = "returned" /\ result.status = "cancelled")

\* C15: a worker that exits with a non-zero status, or an exception raised
\* while orchestrating (a failed launch included), ends with run_extraction
\* returning the status "error", no exception escaping.
C15_FailureReported ==
    (spc = "end" /\ cli = "root" /\ ~sigint_sent
        /\ (xkind = "exc" \/ returncode # 0)) =>
        (outcome = "returned" /\ result.status = "error")

\* C16: the CLI process exits with 0 exactly when the job ended in success.
C16_ExitCodeBySuccess ==
    (spc = "exited" /\ cli = "root") =>
        (exit_code = 0 <=> (outcome = "returned" /\ result.status = "success"))

\* The search order as the specification lists it.
SearchOrder == <<"exact", "shared", "subdir", "deep">>
FirstExisting(a) ==
    IF a = {} THEN NotFound
    ELSE SearchOrder[CHOOSE i \in 1..Len(SearchOrder) :
            /\ SearchOrder[i] \in a
            /\ \A j \in 1..(i - 1) : SearchOrder[j] \notin a]

\* C17: run_extraction reports success only if the worker exited with 0 and
\* the artifact exists in one of the searched places, and the path reported
\* is the first existing one in the order exact, shared, subdirectory,
\* recursive match.
C17_SuccessNeedsArtifact ==
    (cli = "root" /\ result.status = "success") =>
        /\ returncode = 0
        /\ artifacts # {}
        /\ result.output_file = FirstExisting(artifacts)

C17_Witness ==
    /\ cli = "root"
    /\ spc = "end"
    /\ result.status = "success"
    /\ result.output_file = "subdir"
    /\ "deep" \in artifacts

(* ------------------------------ LogManager ----------------------------- *)
\* Time between LogManager calls: the archive interval, and a second less.
LogSteps == {86399, 86400}

\* archive_logs: the test that lets a call go on to copy.
ArchiveDueAlways(force, now, last) == TRUE
ArchiveDue(force, now, last) ==
    force \/ ~((now - last) < archive_check_interval)

\* shutil.copy2(status_file, backup_path): the copy holds the source's bytes.
copy2(content) == content

\* The archive directory after one run of the copy loop at time `now`: each
\* existing status file is copied to <archive>/<date>/<stem>_<timestamp><suffix>,
\* replacing a copy of the same name; historical logs are not in the loop.
ArchiveRunNoDebug(files, arch, now) ==
    {c \in arch : ~(c.at = now /\ files[c.file] # NoFile /\ c.file # "debug_log")}
        \cup {[file |-> f, at |-> now, content |-> copy2(files[f])] :
                f \in {g \in StatusFiles \ {"debug_log"} : files[g] # NoFile}}
ArchiveRun(files, arch, now) ==
    {c \in arch : ~(c.at = now /\ files[c.file] # NoFile)}
        \cup {[file |-> f, at |-> now, content |-> copy2(files[f])] :
                f \in {g \in StatusFiles : files[g] # NoFile}}

\* The effect of archive_logs(force) on last_archive_check and the archive.
Archived(force) ==
    IF ArchiveDue(force, clock, last_archive_check)
    THEN /\ last_archive_check' = clock
         /\ archive' = ArchiveRun(live, archive, clock)
         /\ unforced_runs' = IF force THEN unforced_runs ELSE unforced_runs + 1
    ELSE UNCHANGED <<last_archive_check, archive, unforced_runs>>

ArchiveRuns == Cardinality({c.at : c \in archive})

LogFrame ==
    /\ UNCHANGED <<spc, handler, original_saved, cleanup_count, xkind, pending,
                   result, outcome, returncode, timed_out, sigint_sent,
                   sigint_phase, cli, artifacts, produced, exit_code>>
    /\ UNCHANGED <<updVars, mailbox, monVars>>
    /\ UNCHANGED <<journal, faults, escaped>>

\* LogManager.archive_logs(force)
archive_logs(force) ==
    /\ force => ArchiveRuns < MaxArchiveRuns
    /\ Archived(force)
    /\ UNCHANGED <<live, hist, job_stopped, clock>>
    /\ LogFrame

StatusFileOf(is_container) ==
    IF is_container THEN "container_status" ELSE "extraction_status"
LogNameOf(is_container) ==
    IF is_container THEN "container_log" ELSE "extraction_log"

\* A line appended to a historical log: open(log_path, 'a') creates the file.
Appended(h, name) == h \cup {name}

\* LogManager.write_status(status, is_container): archive_logs(), the status
\* file rewritten, a line appended to the historical log.
write_status(status, is_container) ==
    /\ Archived(FALSE)
    /\ live' = [live EXCEPT ![StatusFileOf(is_container)] = status]
    /\ hist' = Appended(hist, LogNameOf(is_container))
    /\ UNCHANGED <<job_stopped, clock>>
    /\ LogFrame

\* LogManager.append_to_log(log_name, content, domain), as StatusUpdater
\* calls it for the domain's extraction_log.
append_to_log(name) ==
    /\ name \notin hist
    /\ hist' = Appended(hist, name)
    /\ UNCHANGED <<last_archive_check, live, archive, unforced_runs, job_stopped,
                   clock>>
    /\ LogFrame

\* The worker writes debug_log.txt in the shared directory.
DebugLogWritten ==
    /\ live["debug_log"] = NoFile
    /\ live' = [live EXCEPT !["debug_log"] = "s1"]
    /\ UNCHANGED <<last_archive_check, hist, archive, unforced_runs, job_stopped,
                   clock>>
    /\ LogFrame

\* StatusUpdater.stop(): the stop event is appended to the domain's
\* extraction_events log; nothing else of the LogManager is called.
StopLogged ==
    /\ ~job_stopped
    /\ job_stopped' = TRUE
    /\ hist' = Appended(hist, "domain/extraction_events")
    /\ UNCHANGED <<last_archive_check, live, archive, unforced_runs, clock>>
    /\ LogFrame

LogTick(d) ==
    /\ clock + d <= MaxLogClock
    /\ clock' = clock + d
    /\ UNCHANGED <<updVars, mailbox, monVars, supVars>>

NextLog ==
    \/ \E force \in BOOLEAN : archive_logs(force)
    \/ \E status \in Statuses, is_container \in BOOLEAN :
            write_status(status, is_container)
    \/ append_to_log("domain/extraction_log")
    \/ DebugLogWritten
    \/ StopLogged
    \/ \E d \in LogSteps : LogTick(d)

SpecLog == Init /\ [][NextLog]_vars

(* ------------------------- LogManager properties ----------------------- *)
\* The copy of file f made at time t with content c is in the archive a.
HasCopy(a, f, t, c) == [file |-> f, at |-> t, content |-> c] \in a

\* Every status file that exists now has, in the archive after the step, a
\* copy made now that holds the file's present content.
AllCopied ==
    \A f \in StatusFiles :
        live[f] # NoFile => HasCopy(archive', f, clock, live[f])

\* C12: when the job terminates (StatusUpdater.stop()), the status files are
\* archived then, without waiting for the 24 h interval.
C12_StopArchives == [][StopLogged => AllCopied]_vars

\* A call that does not force: archive_logs(), or write_status, which
\* begins with one.
NonForcedCall ==
    \/ archive_logs(FALSE)
    \/ \E status \in Statuses, is_container \in BOOLEAN :
            write_status(status, is_container)

C20_HistoricalArchived ==
    [][\A force \in BOOLEAN :
        (archive_logs(force) /\ ArchiveDue(force, clock, last_archive_check)) =>
            \A h \in hist : \E c \in archive' : c.file = h /\ c.at = clock]_vars

\* C21: a copy in the archive is write-once: every copy there before a step is
\* there, with the same content, after it.
C21_ArchiveWriteOnce == [][\A c \in archive : c \in archive']_vars

(* ------------------- StatusUpdater calls and the logs ------------------ *)
\* In this machine a call of the StatusUpdater is one step, container_status.txt
\* is the variable mailbox, and the updater is the DockerStatusUpdater (the
\* class of status_updater.py with domain "docker") or the class local to
\* headless_extractor.py, which has no LogManager.

\* "[<timestamp>] <content>\n", one line of a log.
Entry(now, line) == [at |-> now, line |-> line]

\* open(log_path, 'a') and write: the line goes after the lines there.
AppendEntryTruncating(log, e) == <<e>>
AppendEntry(log, e) == Append(log, e)

Logged(j, name, e) == [j EXCEPT ![name] = AppendEntry(@, e)]

JournalSize == Len(journal["container_log"]) + Len(journal["domain/extraction_log"])
                + Len(journal["domain/extraction_events"])
                + Len(journal["status_write_error"])

\* The logs of logs/ that exist once the journal is j.
LogsIn(j) == {n \in HistoricalLogs \cap JournalFiles : j[n] # <<>>}

\* LogManager.write_status begins with archive_logs(): it goes on to an archive
\* run when the interval has passed.
WriteArchives == cls # "local" /\ ArchiveDue(FALSE, clock, last_archive_check)

\* archive_logs: date_archive_dir.mkdir(exist_ok=True) is in no try statement;
\* when it fails the exception leaves archive_logs and, the call being
\* outside write_status's try, write_status.
ArchiveRaises == WriteArchives /\ "archive_dir" \in faults

\* The status file after open(status_file, 'w') and the two writes, or as it
\* was when it cannot be opened.
StatusFileAfter(file, line, now) ==
    IF "mailbox" \in faults THEN file
    ELSE [exists |-> TRUE, lines |-> Record(line, now)]

\* The logs after _write_status(line): nothing for the local class; for the
\* other, LogManager.write_status appends to container_log after it has
\* written the file, or to status_write_error.log when it could not, and
\* _write_status then appends to the domain's extraction_log.
JournalAfterWrite(j, line, now) ==
    IF cls = "local" THEN j
    ELSE LET e == Entry(now, line)
             j1 == IF ArchiveRaises THEN j
                   ELSE IF "mailbox" \notin faults THEN Logged(j, "container_log", e)
                   ELSE IF "alt" \notin faults THEN Logged(j, "status_write_error", e)
                   ELSE j
         IN Logged(j1, "domain/extraction_log", e)

\* The copy loop of archive_logs for container_status.txt, which the direct
\* write of _write_status has already rewritten.
MailboxArchived(arch, file, now) ==
    IF file.exists
    THEN {c \in arch : ~(c.file = "container_status" /\ c.at = now)}
            \cup {[file |-> "container_status", at |-> now,
                   content |-> copy2(file.lines)]}
    ELSE arch

\* StatusUpdater._write_status(status): the files other than the logs.
_write_status(line) ==
    /\ mailbox' = StatusFileAfter(mailbox, line, clock)
    /\ IF WriteArchives
       THEN /\ last_archive_check' = clock
            /\ unforced_runs' = unforced_runs + 1
            /\ archive' = IF ArchiveRaises THEN archive
                          ELSE MailboxArchived(archive, mailbox', clock)
       ELSE UNCHANGED <<last_archive_check, unforced_runs, archive>>
    /\ escaped' = IF ArchiveRaises THEN {"archive_logs", "write_status"} ELSE {}

\* What no call of the StatusUpdater touches.
CallFrame ==
    /\ UNCHANGED <<cls, total_steps, locked, cpc, cjob, tpc, tjob, observed>>
    /\ UNCHANGED <<clock, monVars, live, faults>>
    /\ UNCHANGED <<spc, handler, original_saved, cleanup_count, xkind, pending,
                   result, outcome, returncode, timed_out, sigint_sent,
                   sigint_phase, cli, artifacts, produced, exit_code>>

StartedEvent == Line(NoPrefix, "Started extraction process")
StoppedEvent == Line(NoPrefix, "Stopped extraction process")

\* start(), to its return.
StartCall ==
    /\ ~running
    /\ cls # "local" => JournalSize < MaxJournal
    /\ running' = TRUE
    /\ start_time' = clock
    /\ job_stopped' = FALSE
    /\ IF cls = "local"
       THEN UNCHANGED <<mailbox, last_archive_check, unforced_runs, archive,
                        escaped, journal, hist>>
       ELSE /\ _write_status(Line(NoPrefix, "Container started"))
            /\ journal' = Logged(JournalAfterWrite(journal,
                                    Line(NoPrefix, "Container started"), clock),
                                 "domain/extraction_events",
                                 Entry(clock, StartedEvent))
            /\ hist' = hist \cup LogsIn(journal')
    /\ UNCHANGED <<steps_completed, current_status, has_problem>>
    /\ CallFrame

\* stop(), to its return: with a domain, every call appends the stop event.
StopCall ==
    /\ cls # "local" => JournalSize < MaxJournal
    /\ running' = FALSE
    /\ job_stopped' = TRUE
    /\ escaped' = {}
    /\ journal' = IF cls = "local" THEN journal
                  ELSE Logged(journal, "domain/extraction_events",
                              Entry(clock, StoppedEvent))
    /\ hist' = hist \cup LogsIn(journal')
    /\ UNCHANGED <<steps_completed, current_status, has_problem, start_time,
                   mailbox, last_archive_check, unforced_runs, archive>>
    /\ CallFrame

\* update_status(status, increment_step, is_problem), to its return.
UpdateCall(status, increment_step, is_problem) ==
    /\ increment_step => steps_completed < MaxSteps
    /\ cls # "local" => JournalSize < MaxJournal
    /\ has_problem' = IF cls # "local" /\ is_problem THEN TRUE ELSE has_problem
    /\ current_status' = [prefix |-> FormattedPrefix(cls, increment_step, is_problem),
                          msg |-> status]
    /\ steps_completed' = StepsAfter(steps_completed, increment_step, is_problem)
    /\ _write_status(Line(current_status'.prefix, status))
    /\ journal' = JournalAfterWrite(journal, Line(current_status'.prefix, status),
                                    clock)
    /\ hist' = hist \cup LogsIn(journal')
    /\ UNCHANGED <<running, start_time, job_stopped>>
    /\ CallFrame

\* The line one iteration of _update_loop formats.
TickerLine ==
    SuffixedLine(current_status.prefix, current_status.msg,
                 Progress(steps_completed, total_steps), clock - start_time)

\* One iteration of _update_loop, the thread running.
TickerPublish ==
    /\ running
    /\ cls # "local" => JournalSize < MaxJournal
    /\ _write_status(TickerLine)
    /\ journal' = JournalAfterWrite(journal, TickerLine, clock)
    /\ hist' = hist \cup LogsIn(journal')
    /\ UNCHANGED <<running, steps_completed, current_status, has_problem,
                   start_time, job_stopped>>
    /\ CallFrame

\* A fresh StatusUpdater, and with it a fresh LogManager, on the same shared
\* directory after the previous one has been stopped: the fields start over,
\* the files stay.
FreshUpdater ==
    /\ job_stopped
    /\ running' = FALSE
    /\ steps_completed' = 0
    /\ current_status' = [prefix |-> NoPrefix, msg |-> "Initializing"]
    /\ has_problem' = FALSE
    /\ start_time' = clock
    /\ last_archive_check' = clock
    /\ job_stopped' = FALSE
    /\ escaped' = {}
    /\ UNCHANGED <<mailbox, unforced_runs, archive, journal, hist>>
    /\ CallFrame

NextJournal ==
    \/ StartCall
    \/ StopCall
    \/ \E m \in Msgs, inc \in BOOLEAN, prob \in BOOLEAN : UpdateCall(m, inc, prob)
    \/ TickerPublish
    \/ FreshUpdater
    \/ LogTick(archive_check_interval)

\* A StatusUpdater just constructed on an empty shared directory, the file
\* system with any of the faults.
InitJournal ==
    /\ InitUpdater
    /\ cls \in {"docker", "local"}
    /\ MonitorFields
    /\ proc = "running"
    /\ dir_exists = TRUE
    /\ InitSupervisor
    /\ cli = "root"
    /\ artifacts = {}
    /\ InitDisk
    /\ faults \in SUBSET Faults
    /\ mailbox = AbsentFile
    /\ clock = 0

SpecJournal == InitJournal /\ [][NextJournal]_vars

\* C22: no exception leaves archive_logs, whatever goes wrong while it
\* creates the dated directory or copies a file.
C22_ArchiveNeverRaises == "archive_logs" \notin escaped

\* A call that publishes a record: update_status, or an iteration of the
\* ticker thread.
Publishes ==
    \/ \E m \in Msgs, inc \in BOOLEAN, prob \in BOOLEAN : UpdateCall(m, inc, prob)
    \/ TickerPublish

\* C23: when the mailbox cannot be written, update_status and the ticker's
\* publish raise nothing, update_status still sets the fields, and a
\* diagnostic record is appended to the error log.
C23_MailboxFaultHandled ==
    [][("mailbox" \in faults /\ Publishes) =>
        /\ escaped' \cap {"update_status", "_update_loop"} = {}
        /\ \A m \in Msgs, inc \in BOOLEAN, prob \in BOOLEAN :
            UpdateCall(m, inc, prob) =>
                /\ current_status'.msg = m
                /\ steps_completed' = StepsAfter(steps_completed, inc, prob)
        /\ Len(journal'["status_write_error"])
              = Len(journal["status_write_error"]) + 1]_vars

\* C24: a step that changes the mailbox also appends the status line it
\* wrote there to a historical log.
C24_PublishedIsLogged ==
    [][mailbox' # mailbox =>
        \E n \in {"container_log", "domain/extraction_log"} :
            /\ Len(journal'[n]) = Len(journal[n]) + 1
            /\ journal'[n][Len(journal'[n])].line = mailbox'.lines[1]]_vars

\* C26: stop() raises nothing and leaves running false; a stop() that follows
\* a stop() changes no field, no file and no log.
C26_StopIdempotent ==
    [][StopCall =>
        /\ ~running'
        /\ escaped' = {}
        /\ job_stopped =>
            /\ journal' = journal
            /\ mailbox' = mailbox
            /\ archive' = archive
            /\ updVars' = updVars]_vars

IsPrefix(a, b) == Len(a) <= Len(b) /\ SubSeq(b, 1, Len(a)) = a

\* C28: every step leaves each log with the lines it had, in their order, at
\* its beginning (the error log included).
C28_LogAppendOnly ==
    [][\A n \in JournalFiles : IsPrefix(journal[n], journal'[n])]_vars

\* A StatusUpdater started, stopped, and a fresh one started a day later: the
\* events log holds all three events.
C28_Witness ==
    LET ev == journal["domain/extraction_events"] IN
        /\ Len(ev) = 3
        /\ ev[1] = Entry(0, StartedEvent)
        /\ ev[2] = Entry(0, StoppedEvent)
        /\ ev[3] = Entry(archive_check_interval, StartedEvent)
        /\ last_archive_check = archive_check_interval
        /\ unforced_runs = 0
        /\ Len(journal["container_log"]) = 2
        /\ running

(* ------------------------ ownership and locking ------------------------ *)
\* C25: no step of the host's monitor (start() or its thread) creates the
\* mailbox file or changes its content.
C25_OnlyWorkerWrites == [][(MonStart \/ MonitorThread) => mailbox' = mailbox]_vars

C29_NoIOUnderLock == [][\A t \in Tickers : TickerWrite(t) => ~locked]_vars

\* The steps taken with the mutex held (update_status takes it as it
\* begins, the ticker at "with self.lock").
UnderLock ==
    \/ \E m \in Msgs, inc \in BOOLEAN, prob \in BOOLEAN : update_status(m, inc, prob)
    \/ \E t \in Tickers : TickerAcquire(t)

\* C30: the shared fields are written only in steps that hold the mutex.
C30_FieldsUnderLock ==
    [][(\/ running' # running
        \/ start_time' # start_time
        \/ steps_completed' # steps_completed
        \/ current_status' # current_status
        \/ has_problem' # has_problem) => UnderLock]_vars

(* --------------------------- record severity --------------------------- *)
\* C34: update_status gives the record the severity its flags decide:
\* the problem prefix when is_problem, else the success prefix when
\* increment_step, else the progress prefix.
C34_SeverityByFlags ==
    [][\A m \in Msgs, inc \in BOOLEAN, prob \in BOOLEAN :
        update_status(m, inc, prob) =>
            current_status'.prefix =
                (IF prob THEN PROBLEM ELSE IF inc THEN SUCCESS ELSE PROGRESS)]_vars

\* C35: has_error(), which returns self.has_problem, is true exactly when the
\* current status is a problem (full class and DockerStatusUpdater).
C35_HasErrorIsCurrent ==
    cls # "local" => (has_problem <=> current_status.prefix = PROBLEM)

\* C38: no ticker thread writes the status file once stop() has returned and
\* start() has not been called again.
C38_QuietAfterStop ==
    [][(~running /\ cpc = "idle") => \A t \in Tickers : ~TickerWrite(t)]_vars

(* --------------------------- interrupt handling ------------------------ *)
\* C33: however run_extraction ends (return, exception, sys.exit from the
\* signal handler), the SIGINT handler then in force is the one that was in
\* force when it was called.
C33_HandlerRestored == spc \in {"end", "exited"} => handler = "original"

\* run_extraction left by the signal handler's sys.exit, after the handler had
\* been installed.
C33_Witness ==
    /\ spc = "end"
    /\ outcome = "sysexit"
    /\ original_saved
    /\ handler = "original"

(* ----------------------------- stale output ---------------------------- *)
\* C40: run_extraction does not report success when the worker of this job
\* has saved nothing (a file with the output's name may have been there
\* before the launch).
C40_SuccessIsFresh ==
    (cli = "root" /\ result.status = "success") => produced # {}

(* ------------------------- host-side polling --------------------------- *)
\* The shared directory: ./shared on the host, mounted in the container as
\* /home/computeruse/shared. A path is the sequence of names below its root.
SharedDir == <<"shared">>

\* self.status_file of the worker's StatusUpdater: the local class puts it in
\* the domain's subdirectory, the class of status_updater.py directly in the
\* shared directory.
status_file(c) ==
    IF c = "local" THEN SharedDir \o <<"domain", "container_status.txt">>
    ELSE SharedDir \o <<"container_status.txt">>

\* container_status_file of ExtractionMonitor._monitor_loop
container_status_file == SharedDir \o <<"container_status.txt">>

\* C36: every write HeadlessExtractor's StatusUpdater makes to its status file
\* goes to the file the host's monitor polls.
C36_SameMailbox ==
    [][(cls = "local" /\ CallerWrite) => status_file(cls) = container_status_file]_vars

\* C37: the operator is prompted for a Problem record only by the first poll
\* that reads it: a poll that goes on to input() has read content other than
\* what the previous poll read.
C37_PromptOncePerProblem ==
    [][(MonPollPresent /\ mpc' = "input") => mailbox.lines # last_status]_vars

\* C39: the monitor's write-back leaves the status file holding what it held:
\* it never puts back a record the worker has replaced since the read.
C39_NoStaleWriteBack == [][MonWriteBack => mailbox'.lines = mailbox.lines]_vars

\* C32: the worker having exited while the monitor was active, the monitor
\* comes to publish the final line and to stop polling.
C32_CompletionPublished ==
    (proc = "exited" /\ m_running /\ mpc \notin {"off", "done"})
        ~> (mpc = "done" /\ mailbox.lines = <<Line(NoPrefix, "Extraction completed")>>)

(* ------------------------------ the ticker ----------------------------- *)
\* Where the ticker thread is after an iteration in which a write failed: the
\* exception is caught inside the loop, which goes on to sleep and to test
\* running again.
AfterFailedWriteDies == "dead"
AfterFailedWrite == "check"

\* An open() of the status file by a ticker's _write_status raises: the
\* except clause around it prints, the file is left as it was, and the
\* iteration goes on to its next write, or ends and releases the lock.
TickerWriteFails(t) ==
    /\ tpc[t] = "write"
    /\ tjob[t].n % 2 = 0
    /\ IF tjob[t].n = 2
       THEN /\ tjob' = [tjob EXCEPT ![t] = NoJob]
            /\ tpc' = [tpc EXCEPT ![t] = AfterFailedWrite]
            /\ locked' = FALSE
       ELSE /\ tjob' = [tjob EXCEPT ![t].n = tjob[t].n - 2]
            /\ UNCHANGED <<tpc, locked>>
    /\ UNCHANGED <<cls, running, steps_completed, total_steps, current_status,
                   has_problem, cpc, cjob, start_time, observed>>
    /\ UNCHANGED <<mailbox, clock, monVars, supVars>>

\* A StatusUpdater started once: its caller and its one ticker thread, whose
\* writes can fail.
NextTicker ==
    \/ start /\ Unborn = Tickers
    \/ stop
    \/ \E m \in Msgs, inc \in BOOLEAN, prob \in BOOLEAN : update_status(m, inc, prob)
    \/ CallerWrite
    \/ \E t \in Tickers : TickerCheck(t)
    \/ \E t \in Tickers : TickerAcquire(t)
    \/ \E t \in Tickers : TickerWrite(t)
    \/ \E t \in Tickers : TickerWriteFails(t)

SpecTicker == Init /\ [][NextTicker]_vars

\* The threads are scheduled: the caller finishes the write it has begun, a
\* ticker thread that can test running does so, a ticker thread that finds
\* the lock free again and again gets it, and its writes do not fail for ever.
FairSpecTicker ==
    /\ SpecTicker
    /\ WF_vars(CallerWrite)
    /\ \A t \in Tickers : WF_vars(TickerCheck(t))
    /\ \A t \in Tickers : SF_vars(TickerAcquire(t))
    /\ \A t \in Tickers : SF_vars(TickerWrite(t))

\* The status file holds a complete record whose status line carries the
\* current message and the ticker's suffix.
Republished ==
    /\ Len(mailbox.lines) = 2
    /\ mailbox.lines[1].sfx
    /\ mailbox.lines[1].msg = current_status.msg

====
